---- MODULE Spec2Model ----
(***************************************************************************)
(* Model of the gitopolis registry engine (src/src/gitopolis.rs) and of    *)
(* its repo collection (src/src/repos.rs).                                 *)
(*                                                                         *)
(* Paths, names, tags and remote names are strings; they are taken apart   *)
(* with Len / SubSeq so that path components, file names, suffixes and the *)
(* byte order used by the sorts are computed, not assumed.  Paths follow   *)
(* std::path on a Unix target: "/" separates components, "\" is an         *)
(* ordinary byte of a component.                                           *)
(*                                                                         *)
(* GopRepoBuilder leaves `tags` unset in new_with_path_and_remotes; the    *)
(* model gives such a repo the empty tag list.                             *)
(***************************************************************************)
EXTENDS Integers, Sequences, FiniteSets, TLC

VARIABLES
    exists,     \* Storage::exists(): a state document has been saved
    stored,     \* the persisted registry: the sequence of repos in the document
    last        \* the engine call that produced this state, with its outcome

vars == <<exists, stored, last>>

----------------------------------------------------------------------------
(* Bounds                                                                  *)

MaxRepos == 2       \* longest registry the model lets the engine build

----------------------------------------------------------------------------
(* Strings as byte sequences                                               *)

\* The bytes the model's strings are made of, in ascending byte value.
Alphabet ==
    << ".", "/", ":", "@", "A", "B", "\\", "_",
       "a", "b", "c", "d", "e", "f", "g", "h", "i", "j", "k", "l", "m",
       "n", "o", "p", "q", "r", "s", "t", "u", "v", "w", "x", "y", "z" >>

ByteRank(c) == CHOOSE i \in 1..Len(Alphabet) : Alphabet[i] = c

CharAt(s, i) == SubSeq(s, i, i)

\* str::cmp / OsStr::cmp: lexicographic on bytes; -1, 0 or 1.
StrCmp(a, b) ==
    IF a = b THEN 0
    ELSE LET d == CHOOSE i \in 1..(Len(a) + 1) :
                      /\ SubSeq(a, 1, i - 1) = SubSeq(b, 1, i - 1)
                      /\ \/ i > Len(a)
                         \/ i > Len(b)
                         \/ CharAt(a, i) # CharAt(b, i)
         IN  IF d > Len(a) THEN -1
             ELSE IF d > Len(b) THEN 1
             ELSE IF ByteRank(CharAt(a, d)) < ByteRank(CharAt(b, d)) THEN -1
             ELSE 1

\* str::ends_with
EndsWith(s, suffix) ==
    /\ Len(s) >= Len(suffix)
    /\ SubSeq(s, Len(s) - Len(suffix) + 1, Len(s)) = suffix

LowerChar(c) ==
    CASE c = "A" -> "a"
      [] c = "B" -> "b"
      [] OTHER   -> c

RECURSIVE ToLowercase(_)
\* str::to_lowercase
ToLowercase(s) ==
    IF Len(s) = 0 THEN ""
    ELSE LowerChar(CharAt(s, 1)) \o ToLowercase(SubSeq(s, 2, Len(s)))

----------------------------------------------------------------------------
(* std::path                                                               *)

RECURSIVE SplitFrom(_, _, _)
\* The non-empty pieces of p between "/" bytes, from position i on; cur is
\* the piece being read.
SplitFrom(p, i, cur) ==
    IF i > Len(p)
    THEN IF cur = "" THEN <<>> ELSE <<cur>>
    ELSE IF CharAt(p, i) = "/"
         THEN (IF cur = "" THEN <<>> ELSE <<cur>>) \o SplitFrom(p, i + 1, "")
         ELSE SplitFrom(p, i + 1, cur \o CharAt(p, i))

\* Path::components for a relative path: repeated and trailing separators
\* produce no component.
Components(p) == SplitFrom(p, 1, "")

\* PartialEq for Path / PathBuf compares components.
PathEq(p, q) == Components(p) = Components(q)

RECURSIVE SeqCmp(_, _)
SeqCmp(a, b) ==
    IF a = <<>> /\ b = <<>> THEN 0
    ELSE IF a = <<>> THEN -1
    ELSE IF b = <<>> THEN 1
    ELSE LET c == StrCmp(Head(a), Head(b))
         IN  IF c # 0 THEN c ELSE SeqCmp(Tail(a), Tail(b))

\* Ord for Path: lexicographic on the components.
PathCmp(p, q) == SeqCmp(Components(p), Components(q))

None == [some |-> FALSE, val |-> ""]
Some(v) == [some |-> TRUE, val |-> v]

\* Path::file_name: the last component.
FileName(p) ==
    LET cs == Components(p)
    IN  IF cs = <<>> THEN None ELSE Some(cs[Len(cs)])

RECURSIVE JoinPath(_)
\* The path made of the given components.
JoinPath(cs) ==
    IF cs = <<>> THEN ""
    ELSE IF Len(cs) = 1 THEN cs[1]
    ELSE cs[1] \o "/" \o JoinPath(Tail(cs))

\* PathBuf::pop: drop the last component.
PathPop(p) ==
    LET cs == Components(p)
    IN  IF cs = <<>> THEN p ELSE JoinPath(SubSeq(cs, 1, Len(cs) - 1))

\* Path::ends_with(child) for a one-component child: the last component of
\* p is that component.  The child "/" is the root component, which no
\* relative path ends with.
PathEndsWith(p, child) ==
    LET cs == Components(p)
    IN  /\ child # "/"
        /\ cs # <<>>
        /\ cs[Len(cs)] = child

normalize_path(repo_path) ==
    IF PathEndsWith(repo_path, "/") \/ PathEndsWith(repo_path, "\\")
    THEN PathPop(repo_path)
    ELSE repo_path

----------------------------------------------------------------------------
(* GopRepo (src/src/repos.rs)                                              *)

\* GopRemoteUrls -> GopRemotes: one GopRemote per entry, keyed by its name.
into_remotes(urls) == [n \in DOMAIN urls |-> [name |-> n, url |-> urls[n]]]

get_name_from_path(path) ==
    LET f == FileName(path)
    IN  IF f.some /\ f.val # "" /\ EndsWith(f.val, ".git") THEN f ELSE None

default_name(path) == get_name_from_path(path)

\* The builder fails when no name can be derived from the path.
new_with_path_and_remotes(path, remotes_arg) ==
    LET n == default_name(path)
    IN  IF n.some
        THEN [ok |-> TRUE,
              repo |-> [path |-> path, name |-> n.val, tags |-> <<>>,
                        remotes |-> into_remotes(remotes_arg)]]
        ELSE [ok |-> FALSE,
              repo |-> [path |-> path, name |-> "", tags |-> <<>>,
                        remotes |-> <<>>]]

replace_remotes_merge(repo, remotes_arg) ==
    [repo EXCEPT !.remotes =
        [n \in DOMAIN repo.remotes \cup DOMAIN remotes_arg |->
            IF n \in DOMAIN remotes_arg
            THEN into_remotes(remotes_arg)[n]
            ELSE repo.remotes[n]]]

\* clear, then extend with the given remotes.
replace_remotes(repo, remotes_arg) ==
    [repo EXCEPT !.remotes = into_remotes(remotes_arg)]

----------------------------------------------------------------------------
(* GopRepos (src/src/repos.rs)                                             *)

index_by_name_last(repos, name) ==
    IF \E i \in 1..Len(repos) : repos[i].name = name
    THEN CHOOSE i \in 1..Len(repos) :
            /\ repos[i].name = name
            /\ \A j \in (i + 1)..Len(repos) : repos[j].name # name
    ELSE 0

\* Iterator::position: index of the first match, 0 for None.
index_by_name(repos, name) ==
    IF \E i \in 1..Len(repos) : repos[i].name = name
    THEN CHOOSE i \in 1..Len(repos) :
            /\ repos[i].name = name
            /\ \A j \in 1..(i - 1) : repos[j].name # name
    ELSE 0

index_by_path(repos, path) ==
    IF \E i \in 1..Len(repos) : PathEq(repos[i].path, path)
    THEN CHOOSE i \in 1..Len(repos) :
            /\ PathEq(repos[i].path, path)
            /\ \A j \in 1..(i - 1) : ~PathEq(repos[j].path, path)
    ELSE 0

\* find_by_name / find_by_path return the first match, as the index_by_*
\* functions do.
find_by_name(repos, name) == index_by_name(repos, name)

find_by_path(repos, path) == index_by_path(repos, path)

RemoveAt(s, i) == SubSeq(s, 1, i - 1) \o SubSeq(s, i + 1, Len(s))

\* Where a stable sort by path puts x, appended to the sorted sequence s.
InsertByPath(s, x) ==
    LET k == Cardinality({i \in 1..Len(s) : PathCmp(s[i].path, x.path) <= 0})
    IN  SubSeq(s, 1, k) \o <<x>> \o SubSeq(s, k + 1, Len(s))

RECURSIVE SortByPath(_)
\* slice::sort_by(|a, b| a.path.cmp(&b.path)): stable.
SortByPath(s) ==
    IF s = <<>> THEN <<>>
    ELSE InsertByPath(SortByPath(SubSeq(s, 1, Len(s) - 1)), s[Len(s)])

add_unsorted(repos, repo) == Append(repos, repo)

\* GopRepos::add
add(repos, repo) == SortByPath(Append(repos, repo))

add_new_repo(repos, path, remotes_arg) ==
    LET r == new_with_path_and_remotes(path, remotes_arg)
    IN  IF r.ok THEN [ok |-> TRUE, repos |-> add(repos, r.repo)]
        ELSE [ok |-> FALSE, repos |-> repos]

RECURSIVE remove_by_names_stop(_, _)
remove_by_names_stop(repos, repo_names) ==
    IF repo_names = <<>> THEN repos
    ELSE LET ix == index_by_name(repos, Head(repo_names))
         IN  IF ix # 0
             THEN remove_by_names_stop(RemoveAt(repos, ix), Tail(repo_names))
             ELSE repos

RECURSIVE remove_by_names(_, _)
remove_by_names(repos, repo_names) ==
    IF repo_names = <<>> THEN repos
    ELSE LET ix == index_by_name(repos, Head(repo_names))
         IN  IF ix # 0
             THEN remove_by_names(RemoveAt(repos, ix), Tail(repo_names))
             ELSE remove_by_names(repos, Tail(repo_names))

\* Where a stable sort by lowercased tag puts t, appended to the sorted tags.
InsertByLower(s, t) ==
    LET k == Cardinality({i \in 1..Len(s) :
                            StrCmp(ToLowercase(s[i]), ToLowercase(t)) <= 0})
    IN  SubSeq(s, 1, k) \o <<t>> \o SubSeq(s, k + 1, Len(s))

RECURSIVE SortByLower(_)
\* Vec::sort_by_key(|a| a.to_lowercase()): stable.
SortByLower(s) ==
    IF s = <<>> THEN <<>>
    ELSE InsertByLower(SortByLower(SubSeq(s, 1, Len(s) - 1)), s[Len(s)])

add_tag_action_push(tag_name, repo) ==
    [repo EXCEPT !.tags = SortByLower(Append(repo.tags, tag_name))]

add_tag_action_nosort(tag_name, repo) ==
    IF ~\E i \in 1..Len(repo.tags) : repo.tags[i] = tag_name
    THEN [repo EXCEPT !.tags = Append(repo.tags, tag_name)]
    ELSE repo

\* the `action` of GopRepos::add_tag
add_tag_action(tag_name, repo) ==
    IF ~\E i \in 1..Len(repo.tags) : repo.tags[i] = tag_name
    THEN [repo EXCEPT !.tags = SortByLower(Append(repo.tags, tag_name))]
    ELSE repo

\* the `action` of GopRepos::remove_tag
remove_tag_action(tag_name, repo) ==
    IF \E i \in 1..Len(repo.tags) : repo.tags[i] = tag_name
    THEN LET ix == CHOOSE i \in 1..Len(repo.tags) :
                      /\ repo.tags[i] = tag_name
                      /\ \A j \in 1..(i - 1) : repo.tags[j] # tag_name
         IN  [repo EXCEPT !.tags = RemoveAt(repo.tags, ix)]
    ELSE repo

TagAction(kind, tag_name, repo) ==
    IF kind = "add" THEN add_tag_action(tag_name, repo)
    ELSE remove_tag_action(tag_name, repo)

RECURSIVE do_tag_skip(_, _, _, _, _)
do_tag_skip(repos, tag_name, repo_names, kind, done) ==
    IF repo_names = <<>>
    THEN [ok |-> TRUE, repos |-> repos, err |-> "", done |-> done]
    ELSE LET ix == find_by_name(repos, Head(repo_names))
         IN  IF ix = 0
             THEN do_tag_skip(repos, tag_name, Tail(repo_names), kind, done)
             ELSE do_tag_skip(
                    [repos EXCEPT ![ix] = TagAction(kind, tag_name, repos[ix])],
                    tag_name, Tail(repo_names), kind,
                    Append(done, Head(repo_names)))

RECURSIVE do_tag(_, _, _, _, _)
\* GopRepos::do_tag: `done` collects the names the action was applied for;
\* err is the name of the State "Repo '<name>' not found" error.
do_tag(repos, tag_name, repo_names, kind, done) ==
    IF repo_names = <<>>
    THEN [ok |-> TRUE, repos |-> repos, err |-> "", done |-> done]
    ELSE LET ix == find_by_name(repos, Head(repo_names))
         IN  IF ix = 0
             THEN [ok |-> FALSE, repos |-> repos, err |-> Head(repo_names),
                   done |-> done]
             ELSE do_tag(
                    [repos EXCEPT ![ix] = TagAction(kind, tag_name, repos[ix])],
                    tag_name, Tail(repo_names), kind,
                    Append(done, Head(repo_names)))

\* GopRepos::add_tag
add_tag(repos, tag_name, repo_names) ==
    do_tag(repos, tag_name, repo_names, "add", <<>>)

\* GopRepos::remove_tag
remove_tag(repos, tag_name, repo_names) ==
    do_tag(repos, tag_name, repo_names, "remove", <<>>)

\* GopRepos::add_with_tags_and_remotes is called by move_repo but is not in
\* the sources; it builds the repo at the path, named by the final path
\* segment, with the given tags and remotes, and inserts it with add.
add_with_tags_and_remotes(repos, path, tags, remotes) ==
    LET f == FileName(path)
    IN  add(repos, [path |-> path, name |-> f.val, tags |-> tags,
                    remotes |-> remotes])

----------------------------------------------------------------------------
(* The values the engine is called with                                    *)

\* Paths of working copies; both repos are named "b.git".  "d" has no name
\* the builder accepts; "b.git/" is "b.git" with a trailing separator.
Paths == {"b.git", "a/b.git"}

RawPaths == Paths \cup {"d", "b.git/"}

\* Repo names given to remove / add_tag / remove_tag; "zz" names no repo.
NameInputs == {"b.git", "zz"}

Tags == {"a", "B"}

NameLists ==
    {<<>>} \cup {<<n>> : n \in NameInputs}
           \cup {<<n, m>> : n \in NameInputs, m \in NameInputs}

\* Remote sets a working copy can hold (GopRemoteUrls: name -> url).
NoRemotes == <<>>
OriginOnly == "origin" :> "u1"
OriginMoved == "origin" :> "u2"
OriginAndFork == ("origin" :> "u1") @@ ("fork" :> "u2")

\* What Git::read_all_remotes answers for one working copy: the remotes, or
\* an error.
ReadOk(urls) == [ok |-> TRUE, urls |-> urls]
ReadErr == [ok |-> FALSE, urls |-> <<>>]

ReadAnswers == {ReadOk(OriginOnly), ReadOk(OriginAndFork), ReadErr}

\* The working copy a path denotes.
FsKey(path) == JoinPath(Components(path))

----------------------------------------------------------------------------
(* TagFilter (crate::tag_filter, not in the sources): a sequence of groups *)
(* of tags; every group must share a tag with the repo.                    *)

matches_any_group(filter, tags) ==
    \/ filter = <<>>
    \/ \E g \in 1..Len(filter) :
        \E i \in 1..Len(tags) : tags[i] \in filter[g]

matches(filter, tags) ==
    \A g \in 1..Len(filter) :
        \E i \in 1..Len(tags) : tags[i] \in filter[g]

Filters == {<<>>, <<{"a"}>>}

\* Where a stable sort by lowercased name puts x, appended to the sorted s.
InsertByName(s, x) ==
    LET k == Cardinality({i \in 1..Len(s) :
                StrCmp(ToLowercase(s[i].name), ToLowercase(x.name)) <= 0})
    IN  SubSeq(s, 1, k) \o <<x>> \o SubSeq(s, k + 1, Len(s))

RECURSIVE SortByName(_)
SortByName(s) ==
    IF s = <<>> THEN <<>>
    ELSE InsertByName(SortByName(SubSeq(s, 1, Len(s) - 1)), s[Len(s)])

RECURSIVE FilterRepos(_, _)
FilterRepos(repos, filter) ==
    IF repos = <<>> THEN <<>>
    ELSE (IF matches(filter, Head(repos).tags) THEN <<Head(repos)>> ELSE <<>>)
         \o FilterRepos(Tail(repos), filter)

list_unsorted(repos, filter) == FilterRepos(repos, filter)

\* Gitopolis::list
list(repos, filter) == SortByName(FilterRepos(repos, filter))

----------------------------------------------------------------------------
(* Gitopolis (src/src/gitopolis.rs)                                        *)

\* Gitopolis::load: no document is the empty registry.
load == IF exists THEN stored ELSE <<>>

\* A backend call, as the engine issued it.
Call(fn, path, name, url, ok) ==
    [fn |-> fn, path |-> path, name |-> name, url |-> url, ok |-> ok]

\* The record of an engine call: its arguments, the registry it loaded
\* (pre), the backend state it met (live) and left (liveAfter), the backend
\* calls it made, the names a tag call handled (done), whether it saved, the
\* error count of a bulk call, and its result: "Ok", the kind of the GopError
\* returned, or "Exit" for std::process::exit(1).  NoCall is the engine
\* after Gitopolis::new, before a call.
NoCall ==
    [op |-> "new", path |-> "", path2 |-> "", tag |-> "", names |-> <<>>,
     filter |-> <<>>, repos |-> <<>>, pre |-> <<>>, live |-> <<>>,
     liveAfter |-> <<>>, calls |-> <<>>, done |-> <<>>, saved |-> FALSE,
     count |-> 0, result |-> "Ok", err |-> ""]

EngineAdd_unchecked(repos, repo_path, ans) ==
    LET normalized_path == normalize_path(repo_path)
        read == Call("read_all_remotes", normalized_path, "", "", ans.ok)
        added == add_new_repo(repos, normalized_path, ans.urls)
    IN  IF ~ans.ok
        THEN [repos |-> repos, saved |-> FALSE, calls |-> <<read>>,
              result |-> "Git"]
        ELSE IF ~added.ok
        THEN [repos |-> repos, saved |-> FALSE, calls |-> <<read>>,
              result |-> "State"]
        ELSE [repos |-> added.repos, saved |-> TRUE, calls |-> <<read>>,
              result |-> "Ok"]

\* Gitopolis::add on the registry `repos`; ans is the backend's answer to
\* read_all_remotes.
EngineAdd(repos, repo_path, ans) ==
    LET normalized_path == normalize_path(repo_path)
        read == Call("read_all_remotes", normalized_path, "", "", ans.ok)
        added == add_new_repo(repos, normalized_path, ans.urls)
    IN  IF index_by_path(repos, normalized_path) # 0
        THEN [repos |-> repos, saved |-> FALSE, calls |-> <<>>,
              result |-> "Ok"]
        ELSE IF ~ans.ok
        THEN [repos |-> repos, saved |-> FALSE, calls |-> <<read>>,
              result |-> "Git"]
        ELSE IF ~added.ok
        THEN [repos |-> repos, saved |-> FALSE, calls |-> <<read>>,
              result |-> "State"]
        ELSE [repos |-> added.repos, saved |-> TRUE, calls |-> <<read>>,
              result |-> "Ok"]

EngineTag_partial(repos, kind, tag_name, repo_names) ==
    LET r == IF kind = "add" THEN add_tag(repos, tag_name, repo_names)
             ELSE remove_tag(repos, tag_name, repo_names)
    IN  [repos |-> r.repos, saved |-> TRUE,
         result |-> IF r.ok THEN "Ok" ELSE "State",
         err |-> r.err, done |-> r.done]

\* Gitopolis::add_tag / remove_tag on the registry `repos`.
EngineTag(repos, kind, tag_name, repo_names) ==
    LET r == IF kind = "add" THEN add_tag(repos, tag_name, repo_names)
             ELSE remove_tag(repos, tag_name, repo_names)
    IN  IF r.ok
        THEN [repos |-> r.repos, saved |-> TRUE, result |-> "Ok",
              err |-> "", done |-> r.done]
        ELSE [repos |-> repos, saved |-> FALSE, result |-> "State",
              err |-> r.err, done |-> r.done]

Add(repo_path, ans) ==
    LET r == EngineAdd(load, repo_path, ans)
    IN  /\ last = NoCall
        /\ stored' = r.repos
        /\ exists' = (exists \/ r.saved)
        /\ (r.calls = <<>> => ans = ReadErr)
        /\ last' = [NoCall EXCEPT !.op = "add", !.path = repo_path,
                        !.pre = load,
                        !.calls = r.calls, !.saved = r.saved,
                        !.live = IF r.calls = <<>> THEN <<>> ELSE ans.urls,
                        !.result = r.result]

\* Gitopolis::remove_repos_by_name
Remove(repo_names) ==
    /\ last = NoCall
    /\ stored' = remove_by_names(load, repo_names)
    /\ exists' = TRUE
    /\ last' = [NoCall EXCEPT !.op = "remove", !.names = repo_names,
                    !.pre = load, !.saved = TRUE]

AddTag(tag_name, repo_names) ==
    LET r == EngineTag(load, "add", tag_name, repo_names)
    IN  /\ last = NoCall
        /\ stored' = r.repos
        /\ exists' = (exists \/ r.saved)
        /\ last' = [NoCall EXCEPT !.op = "add_tag", !.tag = tag_name,
                        !.names = repo_names, !.pre = load,
                        !.saved = r.saved, !.result = r.result,
                        !.err = r.err, !.done = r.done]

RemoveTag(tag_name, repo_names) ==
    LET r == EngineTag(load, "remove", tag_name, repo_names)
    IN  /\ last = NoCall
        /\ stored' = r.repos
        /\ exists' = (exists \/ r.saved)
        /\ last' = [NoCall EXCEPT !.op = "remove_tag", !.tag = tag_name,
                        !.names = repo_names, !.pre = load,
                        !.saved = r.saved, !.result = r.result,
                        !.err = r.err, !.done = r.done]

\* Gitopolis::move_repo; io_ok is the outcome of create_dir_all and rename.
MoveRepo(old_path, new_path, io_ok) ==
    LET repos == load
        normalized_old == normalize_path(old_path)
        normalized_new == normalize_path(new_path)
        ix == index_by_path(repos, normalized_old)
        moved == add_with_tags_and_remotes(
                    remove_by_names(repos, <<normalized_old>>),
                    normalized_new, repos[ix].tags, repos[ix].remotes)
        call == [NoCall EXCEPT !.op = "move", !.path = old_path,
                    !.path2 = new_path, !.pre = repos]
    IN  /\ last = NoCall
        /\ IF ix = 0
           THEN /\ UNCHANGED <<stored, exists>>
                /\ last' = [call EXCEPT !.result = "State",
                                        !.err = normalized_old]
           ELSE IF ~io_ok
           THEN /\ UNCHANGED <<stored, exists>>
                /\ last' = [call EXCEPT !.result = "Io"]
           ELSE /\ stored' = moved
                /\ exists' = TRUE
                /\ last' = [call EXCEPT !.saved = TRUE]

\* Gitopolis::list as an engine call: the list returned is in last.repos.
List(filter) ==
    /\ last = NoCall
    /\ UNCHANGED <<stored, exists>>
    /\ last' = [NoCall EXCEPT !.op = "list", !.filter = filter,
                    !.pre = load, !.repos = list(load, filter)]

\* The call has returned (or the process has exited); the next call starts on
\* an engine built by Gitopolis::new over the same storage.
Return ==
    /\ last # NoCall
    /\ last' = NoCall
    /\ UNCHANGED <<stored, exists>>

\* The working copies of the given repos.
KeysOf(repos) == {FsKey(repos[i].path) : i \in 1..Len(repos)}

RECURSIVE SyncReadLoop(_, _, _, _, _)
\* The loop of sync_read_remotes over repo_list; live gives the backend's
\* answer for each working copy.
SyncReadLoop(repos, repo_list, live, error_count, calls) ==
    IF repo_list = <<>>
    THEN [repos |-> repos, count |-> error_count, calls |-> calls]
    ELSE LET repo == Head(repo_list)
             ans == live[FsKey(repo.path)]
             ix == find_by_path(repos, repo.path)
             read == Call("read_all_remotes", repo.path, "", "", ans.ok)
         IN  IF ans.ok
             THEN SyncReadLoop(
                    IF ix # 0
                    THEN [repos EXCEPT ![ix] = replace_remotes(repos[ix], ans.urls)]
                    ELSE repos,
                    Tail(repo_list), live, error_count, Append(calls, read))
             ELSE SyncReadLoop(repos, Tail(repo_list), live, error_count + 1,
                               Append(calls, read))

\* Gitopolis::sync_read_remotes
SyncReadRemotes(filter, live) ==
    LET r == SyncReadLoop(load, list(load, filter), live, 0, <<>>)
    IN  /\ last = NoCall
        /\ stored' = r.repos
        /\ exists' = TRUE
        /\ last' = [NoCall EXCEPT !.op = "sync_read", !.filter = filter,
                        !.pre = load,
                        !.live = live, !.calls = r.calls, !.saved = TRUE,
                        !.count = r.count,
                        !.result = IF r.count > 0 THEN "Exit" ELSE "Ok"]

\* A trailing "/" or "\" removed, repeatedly.
RECURSIVE StripSeparators(_)
StripSeparators(u) ==
    IF EndsWith(u, "/") \/ EndsWith(u, "\\")
    THEN StripSeparators(SubSeq(u, 1, Len(u) - 1))
    ELSE u

RECURSIVE FinalSegment(_)
\* What follows the last "/", "\" or ":" of u.
FinalSegment(u) ==
    IF u = "" THEN ""
    ELSE IF CharAt(u, Len(u)) \in {"/", "\\", ":"} THEN ""
    ELSE FinalSegment(SubSeq(u, 1, Len(u) - 1)) \o CharAt(u, Len(u))

\* extract_repo_name_from_url is called by clone_and_add but is not in the
\* sources: the final segment of the URL without trailing separators and
\* without a ".git" suffix; None when that is empty.
extract_repo_name_from_url(url) ==
    LET seg == FinalSegment(StripSeparators(url))
        name == IF EndsWith(seg, ".git")
                THEN SubSeq(seg, 1, Len(seg) - 4) ELSE seg
    IN  IF name = "" THEN None ELSE Some(name)

RECURSIVE TagEach(_, _, _)
\* The loop of clone_and_add over its tags: one Gitopolis::add_tag call per
\* tag, each loading and saving the registry; stops at the first error.
TagEach(repos, tags, path_name) ==
    IF tags = <<>> THEN [repos |-> repos, result |-> "Ok", err |-> ""]
    ELSE LET r == EngineTag(repos, "add", Head(tags), <<path_name>>)
         IN  IF r.result # "Ok"
             THEN [repos |-> repos, result |-> r.result, err |-> r.err]
             ELSE TagEach(r.repos, Tail(tags), path_name)

\* Gitopolis::clone_and_add; target_path is an Option, clone_ok the outcome
\* of Git::clone and ans the backend's answer to read_all_remotes.
CloneAndAdd(url, target_path, tags, clone_ok, ans) ==
    LET derived == extract_repo_name_from_url(url)
        path_name == IF target_path.some THEN target_path.val ELSE derived.val
        call == [NoCall EXCEPT !.op = "clone_and_add", !.path = url,
                    !.path2 = IF target_path.some THEN target_path.val ELSE "",
                    !.names = tags, !.pre = load]
        clone == Call("clone", path_name, "", url, clone_ok)
        added == EngineAdd(load, path_name, ans)
        tagged == TagEach(added.repos, tags, path_name)
    IN  /\ last = NoCall
        /\ IF ~target_path.some /\ ~derived.some
           THEN /\ clone_ok /\ ans = ReadErr
                /\ UNCHANGED <<stored, exists>>
                /\ last' = [call EXCEPT !.result = "State"]
           ELSE IF ~clone_ok
           THEN /\ ans = ReadErr
                /\ UNCHANGED <<stored, exists>>
                /\ last' = [call EXCEPT !.result = "Git", !.calls = <<clone>>]
           ELSE IF added.result # "Ok"
           THEN /\ UNCHANGED <<stored, exists>>
                /\ last' = [call EXCEPT !.result = added.result,
                               !.calls = <<clone>> \o added.calls]
           ELSE /\ (added.calls = <<>> => ans = ReadErr)
                /\ stored' = tagged.repos
                /\ exists' = (exists \/ added.saved \/ tagged.repos # added.repos)
                /\ last' = [call EXCEPT !.result = tagged.result,
                               !.err = tagged.err,
                               !.saved = (added.saved \/ tagged.repos # added.repos),
                               !.calls = <<clone>> \o added.calls,
                               !.live = IF added.calls = <<>> THEN <<>> ELSE ans.urls]

\* URLs given to clone_and_add: one names "b.git", one names nothing.
CloneUrls == {"h:x/b.git.git", "h:"}

CloneTargets == {None, Some("a/b.git"), Some("b.git")}

CloneTags == {<<>>, <<"a">>}

Init ==
    /\ exists = FALSE
    /\ stored = <<>>
    /\ last = NoCall

\* The registry stays within the bound of the model.
WithinBound == Len(stored') <= MaxRepos

Next ==
    \/ \E p \in RawPaths, ans \in ReadAnswers : Add(p, ans) /\ WithinBound
    \/ \E ns \in NameLists : Remove(ns)
    \/ \E t \in Tags, ns \in NameLists : AddTag(t, ns)
    \/ \E t \in Tags, ns \in NameLists : RemoveTag(t, ns)
    \/ \E p \in Paths, q \in Paths, io \in BOOLEAN :
            MoveRepo(p, q, io) /\ WithinBound
    \/ \E f \in Filters :
         \E live \in [KeysOf(list(load, f)) -> ReadAnswers] :
            SyncReadRemotes(f, live)
    \/ \E u \in CloneUrls, t \in CloneTargets, ts \in CloneTags,
          ok \in BOOLEAN, ans \in ReadAnswers :
            CloneAndAdd(u, t, ts, ok, ans) /\ WithinBound
    \/ \E f \in Filters : List(f)
    \/ Return

Spec == Init /\ [][Next]_vars

----------------------------------------------------------------------------
(* The bulk operations on the working copies                               *)

\* The keys of a BTreeMap with string keys, in iteration (ascending) order.
RECURSIVE SortedKeys(_)
SortedKeys(S) ==
    IF S = {} THEN <<>>
    ELSE LET m == CHOOSE x \in S : \A y \in S : StrCmp(x, y) <= 0
         IN  <<m>> \o SortedKeys(S \ {m})

RECURSIVE AddRemotesLoop(_, _, _, _, _, _)
\* Git::add_remote for each of `names` (in order) that `wanted` selects, at
\* the working copy of repo; stops at the first call that fails (the `?`).
\* add_fail holds the working copies where add_remote fails.
AddRemotesLoop(repo, names, wanted, add_fail, live, calls) ==
    IF names = <<>>
    THEN [ok |-> TRUE, live |-> live, calls |-> calls]
    ELSE LET name == Head(names)
             key == FsKey(repo.path)
             url == repo.remotes[name].url
             ok == key \notin add_fail
             call == Call("add_remote", repo.path, name, url, ok)
         IN  IF name \notin wanted
             THEN AddRemotesLoop(repo, Tail(names), wanted, add_fail, live, calls)
             ELSE IF ~ok
             THEN [ok |-> FALSE, live |-> live, calls |-> Append(calls, call)]
             ELSE AddRemotesLoop(repo, Tail(names), wanted, add_fail,
                    [live EXCEPT ![key].urls = (name :> url) @@ @],
                    Append(calls, call))

RECURSIVE SyncWriteLoop(_, _, _, _, _)
\* The loop of sync_write_remotes over repo_list.
SyncWriteLoop(repo_list, add_fail, live, error_count, calls) ==
    IF repo_list = <<>>
    THEN [ok |-> TRUE, live |-> live, count |-> error_count, calls |-> calls]
    ELSE LET repo == Head(repo_list)
             current_remotes == live[FsKey(repo.path)]
             read == Call("read_all_remotes", repo.path, "", "",
                          current_remotes.ok)
             missing == {n \in DOMAIN repo.remotes :
                            n \notin DOMAIN current_remotes.urls}
             r == AddRemotesLoop(repo, SortedKeys(DOMAIN repo.remotes),
                                 missing, add_fail, live, Append(calls, read))
         IN  IF ~current_remotes.ok
             THEN SyncWriteLoop(Tail(repo_list), add_fail, live,
                                error_count + 1, Append(calls, read))
             ELSE IF ~r.ok
             THEN [ok |-> FALSE, live |-> r.live, count |-> error_count,
                   calls |-> r.calls]
             ELSE SyncWriteLoop(Tail(repo_list), add_fail, r.live,
                                error_count, r.calls)

SyncWriteRemotes_saving(filter, live, add_fail) ==
    LET r == SyncWriteLoop(list(load, filter), add_fail, live, 0, <<>>)
        read == SyncReadLoop(load, list(load, filter), live, 0, <<>>)
    IN  /\ last = NoCall
        /\ stored' = read.repos
        /\ exists' = TRUE
        /\ last' = [NoCall EXCEPT !.op = "sync_write", !.filter = filter,
                        !.pre = load, !.repos = list(load, filter),
                        !.live = live, !.liveAfter = r.live,
                        !.calls = r.calls, !.count = r.count,
                        !.saved = TRUE,
                        !.result = IF ~r.ok THEN "Git"
                                   ELSE IF r.count > 0 THEN "Exit" ELSE "Ok"]

\* Gitopolis::sync_write_remotes
SyncWriteRemotes(filter, live, add_fail) ==
    LET r == SyncWriteLoop(list(load, filter), add_fail, live, 0, <<>>)
    IN  /\ last = NoCall
        /\ UNCHANGED <<stored, exists>>
        /\ last' = [NoCall EXCEPT !.op = "sync_write", !.filter = filter,
                        !.pre = load, !.repos = list(load, filter),
                        !.live = live, !.liveAfter = r.live,
                        !.calls = r.calls, !.count = r.count,
                        !.result = IF ~r.ok THEN "Git"
                                   ELSE IF r.count > 0 THEN "Exit" ELSE "Ok"]

\* The remote clone() clones from: "origin" if declared, else the first
\* declared remote, else "".
clone_remote_name(repo) ==
    IF "origin" \in DOMAIN repo.remotes THEN "origin"
    ELSE IF DOMAIN repo.remotes # {} THEN SortedKeys(DOMAIN repo.remotes)[1]
    ELSE ""

RECURSIVE CloneLoop(_, _, _, _, _, _)
\* The loop of clone() over repos; clone_fail holds the working copies
\* where Git::clone fails.  live holds the remotes of the working copies
\* cloned so far.
CloneLoop(repos, clone_fail, add_fail, live, error_count, calls) ==
    IF repos = <<>>
    THEN [ok |-> TRUE, live |-> live, count |-> error_count, calls |-> calls]
    ELSE LET repo == Head(repos)
             key == FsKey(repo.path)
             primary == clone_remote_name(repo)
             url == repo.remotes[primary].url
             ok == key \notin clone_fail
             call == Call("clone", repo.path, primary, url, ok)
             r == AddRemotesLoop(repo, SortedKeys(DOMAIN repo.remotes),
                                 DOMAIN repo.remotes \ {primary}, add_fail,
                                 live, Append(calls, call))
         IN  IF primary \notin DOMAIN repo.remotes
             THEN CloneLoop(Tail(repos), clone_fail, add_fail, live,
                            error_count, calls)
             ELSE IF ~ok
             THEN CloneLoop(Tail(repos), clone_fail, add_fail, live,
                            error_count + 1, Append(calls, call))
             ELSE IF ~r.ok
             THEN [ok |-> FALSE, live |-> r.live, count |-> error_count,
                   calls |-> r.calls]
             ELSE CloneLoop(Tail(repos), clone_fail, add_fail, r.live,
                            error_count, r.calls)

\* Gitopolis::clone, called with the repos list(filter) returned.
Clone(filter, clone_fail, add_fail) ==
    LET repos == list(load, filter)
        nothing == [k \in KeysOf(repos) |-> ReadOk(NoRemotes)]
        r == CloneLoop(repos, clone_fail, add_fail, nothing, 0, <<>>)
    IN  /\ last = NoCall
        /\ UNCHANGED <<stored, exists>>
        /\ last' = [NoCall EXCEPT !.op = "clone", !.filter = filter,
                        !.pre = load, !.repos = repos,
                        !.live = nothing, !.liveAfter = r.live,
                        !.calls = r.calls, !.count = r.count,
                        !.result = IF ~r.ok THEN "Git"
                                   ELSE IF r.count > 0 THEN "Exit" ELSE "Ok"]

\* The working copies of the bulk runs, and what their backends hold.
BulkPaths == {"a/b.git", "b.git", "c.git"}

ForkAndUpstream == ("fork" :> "u2") @@ ("upstream" :> "u3")

OriginForkAndUpstream == OriginOnly @@ ForkAndUpstream

DeclaredAnswers ==
    {ReadOk(NoRemotes), ReadOk(OriginOnly), ReadOk(OriginAndFork),
     ReadOk(ForkAndUpstream), ReadOk(OriginForkAndUpstream)}

LiveAnswers ==
    {ReadOk(NoRemotes), ReadOk(OriginOnly), ReadOk(OriginMoved), ReadErr}

\* At most one working copy where a backend call fails.
FailSets(keys) == {{}} \cup {{k} : k \in keys}

NextBulk ==
    \/ \E p \in BulkPaths, ans \in DeclaredAnswers : Add(p, ans)
    \/ AddTag("a", <<"c.git">>)
    \/ \E f \in Filters :
         \E live \in [KeysOf(list(load, f)) -> LiveAnswers],
            add_fail \in FailSets(KeysOf(list(load, f))) :
            SyncWriteRemotes(f, live, add_fail)
    \/ \E f \in Filters :
         \E clone_fail \in SUBSET KeysOf(list(load, f)),
            add_fail \in FailSets(KeysOf(list(load, f))) :
            Clone(f, clone_fail, add_fail)
    \/ Return

SpecBulk == Init /\ [][NextBulk]_vars

----------------------------------------------------------------------------
(* Tagging and listing repos whose names order differently from their paths *)

\* In path order: a/B.git, b/a.git, c.git; by lowercased name: a.git, B.git,
\* c.git.
ListPaths == {"a/B.git", "b/a.git", "c.git"}

ListNames == {"B.git", "a.git", "c.git"}

\* In byte order "B" comes first; case-insensitively "a" does.
ListTags == {"a", "B", "c"}

ListFilters == {<<>>, <<{"a"}>>, <<{"a", "c"}, {"B"}>>}

NextList ==
    \/ \E p \in ListPaths, ans \in {ReadOk(OriginOnly), ReadErr} : Add(p, ans)
    \/ \E t \in ListTags, n \in ListNames : AddTag(t, <<n>>)
    \/ \E t \in ListTags, n \in ListNames : RemoveTag(t, <<n>>)
    \/ \E f \in ListFilters : List(f)
    \/ Return

SpecList == Init /\ [][NextList]_vars

----------------------------------------------------------------------------
(* The functions on paths, URLs and tag filters, applied to given values   *)

MaxPathLen == 4     \* longest path given to normalize_path

RECURSIVE StringsOver(_, _)
\* The strings of at most n bytes, each byte from cs.
StringsOver(cs, n) ==
    IF n = 0 THEN {""}
    ELSE LET shorter == StringsOver(cs, n - 1)
         IN  shorter \cup {s \o c : s \in shorter, c \in cs}

\* Paths given to normalize_path: a name byte and the two separators.
PathArgs == StringsOver({"b", "/", "\\"}, MaxPathLen)

\* URLs and local paths a repo name is derived from: those of
\* test_extract_repo_name_from_url, and two without a final segment.
UrlArgs ==
    {"git@github.com:user/repo.git",
     "https://github.com/user/repo.git",
     "https://github.com/user/repo",
     "git@gitlab.com:group/subgroup/project.git",
     "https://dev.azure.com/org/project/_git/myrepo",
     "source_repo",
     "C:\\Users\\test\\repo.git",
     "C:\\Temp\\myrepo",
     "h:x/b.git.git",
     "h:x/",
     "h:",
     ""}

FilterArgs == {<<>>, <<{"a", "c"}>>, <<{"a", "c"}, {"d"}>>, <<{"d"}, {"b"}>>}

TagArgs == {<<>>, <<"a", "b">>, <<"a", "b", "d">>, <<"c">>, <<"d">>}

\* GopRepo::get_name_from_path_or_url
get_name_from_path_or_url(path_or_url) == get_name_from_path(path_or_url)

\* The result of a function returning Option<String>, in the call record.
OptionResult(call, op, o) ==
    [call EXCEPT !.op = op,
                 !.result = IF o.some THEN "Some" ELSE "None",
                 !.path2 = o.val]

\* The argument is in last (op "path", "url" or "tags"); a function is then
\* applied to it.
InitPure ==
    /\ exists = FALSE
    /\ stored = <<>>
    /\ last \in {[NoCall EXCEPT !.op = "path", !.path = p] : p \in PathArgs}
           \cup {[NoCall EXCEPT !.op = "url", !.path = u] : u \in UrlArgs}
           \cup {[NoCall EXCEPT !.op = "tags", !.filter = f, !.names = ts] :
                    f \in FilterArgs, ts \in TagArgs}

NormalizePath ==
    /\ last.op = "path"
    /\ last' = [last EXCEPT !.op = "normalize_path",
                            !.path2 = normalize_path(last.path)]
    /\ UNCHANGED <<stored, exists>>

GetNameFromPathOrUrl ==
    /\ last.op = "url"
    /\ last' = OptionResult(last, "get_name_from_path_or_url",
                            get_name_from_path_or_url(last.path))
    /\ UNCHANGED <<stored, exists>>

ExtractRepoNameFromUrl ==
    /\ last.op = "url"
    /\ last' = OptionResult(last, "extract_repo_name_from_url",
                            extract_repo_name_from_url(last.path))
    /\ UNCHANGED <<stored, exists>>

Matches ==
    /\ last.op = "tags"
    /\ last' = [last EXCEPT !.op = "matches",
                    !.result = IF matches(last.filter, last.names)
                               THEN "true" ELSE "false"]
    /\ UNCHANGED <<stored, exists>>

NextPure ==
    \/ NormalizePath
    \/ GetNameFromPathOrUrl
    \/ ExtractRepoNameFromUrl
    \/ Matches

SpecPure == InitPure /\ [][NextPure]_vars

----------------------------------------------------------------------------
(* Two engine invocations on one storage                                   *)
(*                                                                         *)
(* Each invocation is a process of its own: it loads the registry, changes *)
(* its copy and saves it.  Storage::read and Storage::save (crate::storage *)
(* is not in the sources) each take or leave the whole document in one     *)
(* step.  While the two run, last holds them: the registry at their start  *)
(* (pre), each one's operation, position, private copy and outcome (inv),  *)
(* and the loads and saves in the order they happened (steps).             *)

\* What an invocation runs: add_tag or remove_tag of one tag for one name
\* ("zz" names no repo), or remove_repos_by_name.
RaceOps ==
    {[kind |-> k, tag |-> t, names |-> <<n>>] :
        k \in {"add_tag", "remove_tag"}, t \in Tags, n \in NameInputs}
    \cup {[kind |-> "remove", tag |-> "", names |-> <<"b.git">>]}

\* The operation of an invocation on the registry `repos`: what it would
\* save, whether it saves, and its result.
RunOn(op, repos) ==
    IF op.kind = "remove"
    THEN [repos |-> remove_by_names(repos, op.names), saved |-> TRUE,
          result |-> "Ok"]
    ELSE LET r == EngineTag(repos,
                            IF op.kind = "add_tag" THEN "add" ELSE "remove",
                            op.tag, op.names)
         IN  [repos |-> r.repos, saved |-> r.saved, result |-> r.result]

RunReloaded(op, repos) == RunOn(op, load)

\* The invocation works on the copy it loaded.
RunLoaded(op, repos) == RunOn(op, repos)

\* An invocation that has not loaded yet.
FreshInvocation(op) ==
    [op |-> op, pc |-> "start", repos |-> <<>>, saved |-> FALSE,
     result |-> ""]

\* Two invocations are started.
StartInvocations(op1, op2) ==
    /\ last = NoCall
    /\ last' = [op |-> "race", pre |-> load,
                inv |-> <<FreshInvocation(op1), FreshInvocation(op2)>>,
                steps |-> <<>>]
    /\ UNCHANGED <<stored, exists>>

\* Gitopolis::load of invocation i.
LoadStep(i) ==
    /\ last.op = "race"
    /\ last.inv[i].pc = "start"
    /\ last' = [last EXCEPT !.inv[i].pc = "loaded",
                            !.inv[i].repos = load,
                            !.steps = Append(@, [who |-> i, step |-> "load"])]
    /\ UNCHANGED <<stored, exists>>

\* Invocation i changes its copy and, unless the change failed, saves it
\* (Gitopolis::save).
SaveStep(i) ==
    /\ last.op = "race"
    /\ last.inv[i].pc = "loaded"
    /\ LET r == RunLoaded(last.inv[i].op, last.inv[i].repos)
       IN  /\ stored' = IF r.saved THEN r.repos ELSE stored
           /\ exists' = (exists \/ r.saved)
           /\ last' = [last EXCEPT
                        !.inv[i].pc = "done",
                        !.inv[i].repos = r.repos,
                        !.inv[i].saved = r.saved,
                        !.inv[i].result = r.result,
                        !.steps = Append(@, [who |-> i,
                            step |-> IF r.saved THEN "save" ELSE "fail"])]

\* Both invocations have ended.
FinishInvocations ==
    /\ last.op = "race"
    /\ \A i \in 1..2 : last.inv[i].pc = "done"
    /\ last' = NoCall
    /\ UNCHANGED <<stored, exists>>

NextRace ==
    \/ \E p \in Paths : Add(p, ReadOk(OriginOnly))
    \/ Return /\ last.op # "race"
    \/ \E op1 \in RaceOps, op2 \in RaceOps : StartInvocations(op1, op2)
    \/ \E i \in 1..2 : LoadStep(i)
    \/ \E i \in 1..2 : SaveStep(i)
    \/ FinishInvocations

SpecRace == Init /\ [][NextRace]_vars

----------------------------------------------------------------------------
(* Properties                                                              *)

\* How many entries of the registry are at the path.
EntriesAt(repos, path) ==
    Cardinality({i \in 1..Len(repos) : PathEq(repos[i].path, path)})

\* How many times x occurs in the sequence s.
Occurrences(s, x) == Cardinality({i \in 1..Len(s) : s[i] = x})

C2_AddKeepsOneEntry ==
    \A i \in 1..Len(stored) :
        EntriesAt(stored, stored[i].path) = 1
            => EntriesAt(add(stored, stored[i]), stored[i].path) = 1

\* C3: add_tag(t, [n]) is idempotent: after a successful call, the same call
\* again succeeds and leaves every tag list as it is, and the repo that n
\* resolves to holds t exactly once.
C3_AddTagIdempotent ==
    (last.op = "add_tag" /\ last.result = "Ok" /\ Len(last.names) = 1) =>
        LET again == EngineTag(stored, "add", last.tag, last.names)
            ix == find_by_name(stored, last.names[1])
        IN  /\ again.result = "Ok"
            /\ again.repos = stored
            /\ ix # 0
            /\ Occurrences(stored[ix].tags, last.tag) = 1

\* The tag was added to a repo that had another tag, so that the order of
\* the list is at stake.
C3_Witness ==
    /\ last.op = "add_tag" /\ last.result = "Ok" /\ Len(last.names) = 1
    /\ \E i \in 1..Len(stored) :
        /\ Len(stored[i].tags) = 2
        /\ Len(last.pre[i].tags) = 1

AddRemoteCalls(path) ==
    {i \in 1..Len(last.calls) :
        /\ last.calls[i].fn = "add_remote"
        /\ PathEq(last.calls[i].path, path)}

\* C5: sync_write_remotes calls add_remote, for every selected repo whose
\* working copy can be read, exactly for the declared remotes whose name is
\* not live; each call that succeeds makes the remote live, and no remote
\* that was live is removed or changed.
C5_SyncWriteAddsMissing ==
    last.op = "sync_write" =>
        \A i \in 1..Len(last.repos) :
            LET repo == last.repos[i]
                key == FsKey(repo.path)
                before == last.live[key]
                after == last.liveAfter[key]
            IN  before.ok =>
                  /\ {last.calls[c].name : c \in AddRemoteCalls(repo.path)}
                        = DOMAIN repo.remotes \ DOMAIN before.urls
                  /\ \A c \in AddRemoteCalls(repo.path) :
                        last.calls[c].ok =>
                            /\ last.calls[c].name \in DOMAIN after.urls
                            /\ after.urls[last.calls[c].name] = last.calls[c].url
                  /\ \A n \in DOMAIN before.urls :
                        n \in DOMAIN after.urls /\ after.urls[n] = before.urls[n]

\* The backend calls of the given kind, in order.
CallsOf(fn) == SelectSeq(last.calls, LAMBDA c : c.fn = fn)

\* The repos of the list given to a bulk call that declare a remote.
WithRemotes == SelectSeq(last.repos, LAMBDA r : DOMAIN r.remotes # {})

\* C6: clone attempts the backend clone of every repo of the list (that has
\* a remote to clone from), in order, whether or not earlier clones failed;
\* the error count is the number of failed clones, and the call fails iff
\* the count is positive.
C6_CloneAttemptsAll ==
    last.op = "clone" =>
        LET clones == CallsOf("clone")
        IN  /\ Len(clones) = Len(WithRemotes)
            /\ \A i \in 1..Len(clones) : clones[i].path = WithRemotes[i].path
            /\ last.count = Cardinality({i \in 1..Len(clones) : ~clones[i].ok})
            /\ (last.result # "Ok") <=> (last.count > 0)

\* C7: in clone and sync_write_remotes a failed add_remote does not abort
\* the call: every selected repo is still processed (cloned, or its remotes
\* read) and the failure shows only in the aggregate outcome.
C7_AddRemoteFailureContinues ==
    (last.op \in {"clone", "sync_write"}
        /\ \E c \in 1..Len(last.calls) :
                last.calls[c].fn = "add_remote" /\ ~last.calls[c].ok) =>
        /\ \A i \in 1..Len(last.repos) :
            (last.op = "clone" => DOMAIN last.repos[i].remotes # {}) =>
                \E c \in 1..Len(last.calls) :
                    /\ last.calls[c].fn \in {"clone", "read_all_remotes"}
                    /\ PathEq(last.calls[c].path, last.repos[i].path)
        /\ last.result = "Exit"

\* C8: after a successful move(old, new) the registry has no entry at old
\* and exactly one entry at new, with the tags and remotes the repo had at
\* old.
C8_MoveReplacesEntry ==
    (last.op = "move" /\ last.result = "Ok"
        /\ ~PathEq(last.path, last.path2)) =>
        LET old == normalize_path(last.path)
            new == normalize_path(last.path2)
            was == last.pre[index_by_path(last.pre, old)]
        IN  /\ EntriesAt(stored, old) = 0
            /\ EntriesAt(stored, new) = 1
            /\ \A i \in 1..Len(stored) :
                PathEq(stored[i].path, new) =>
                    /\ stored[i].tags = was.tags
                    /\ stored[i].remotes = was.remotes

\* The positions of the names that resolve to no repo of the registry.
Unresolved(repos, names) ==
    {i \in 1..Len(names) : \A j \in 1..Len(repos) : repos[j].name # names[i]}

\* C9: add_tag and remove_tag fail fast: with an unresolved name in the
\* list the call returns the State error naming the first unresolved name,
\* having handled exactly the names before it; with none it succeeds having
\* handled every name.
C9_TagFailFast ==
    last.op \in {"add_tag", "remove_tag"} =>
        LET bad == Unresolved(last.pre, last.names)
            first == CHOOSE i \in bad : \A j \in bad : i <= j
        IN  IF bad = {}
            THEN last.result = "Ok" /\ last.done = last.names
            ELSE /\ last.result = "State"
                 /\ last.err = last.names[first]
                 /\ last.done = SubSeq(last.names, 1, first - 1)

\* A resolvable name follows the unresolved one and is not handled.
C9_Witness ==
    /\ last.op = "add_tag" /\ last.result = "State"
    /\ last.names = <<"zz", "b.git">>
    /\ Unresolved(last.pre, last.names) = {1}
    /\ last.done = <<>>

\* The repos of `repos` that a removal by `names` keeps: a repo goes when it
\* is among the first k repos of its name, k being the number of times the
\* name occurs in `names`.
RECURSIVE KeptFrom(_, _, _)
KeptFrom(repos, names, i) ==
    IF i > Len(repos) THEN <<>>
    ELSE LET rank == Cardinality({j \in 1..i : repos[j].name = repos[i].name})
         IN  (IF rank > Occurrences(names, repos[i].name)
              THEN <<repos[i]>> ELSE <<>>)
             \o KeptFrom(repos, names, i + 1)

\* C10: remove_repos_by_name never fails; absent names change nothing and
\* do not stop the batch: every name present is removed (one repo for each
\* time it is listed), the other repos stay as they are, in order.
C10_RemoveByNames ==
    last.op = "remove" =>
        /\ last.result = "Ok"
        /\ stored = KeptFrom(last.pre, last.names, 1)
        /\ (Unresolved(last.pre, last.names) = DOMAIN last.names
                => stored = last.pre)

\* An absent name comes first in the batch and the present one after it is
\* removed.
C10_Witness ==
    /\ last.op = "remove"
    /\ last.names = <<"zz", "b.git">>
    /\ Len(last.pre) = 2
    /\ Len(stored) = 1

\* A path with no trailing "/" or "\".
NoTrailingSeparator(p) == ~EndsWith(p, "/") /\ ~EndsWith(p, "\\")

\* C11: normalize_path strips a trailing separator: for a path p without a
\* trailing separator, normalize(p) is p itself, and normalize(p + "/") and
\* normalize(p + "\") both equal normalize(p) (as paths), so that the three
\* address the same registry key.
C11_NormalizeStrips ==
    (last.op = "normalize_path" /\ NoTrailingSeparator(last.path)) =>
        /\ last.path2 = last.path
        /\ PathEq(normalize_path(last.path \o "/"), last.path2)
        /\ PathEq(normalize_path(last.path \o "\\"), last.path2)

\* The names the claim gives for its example URLs.
DerivedNameExamples ==
    ("git@github.com:user/repo.git" :> "repo")
        @@ ("https://github.com/user/repo" :> "repo")
        @@ ("source_repo" :> "source_repo")
        @@ ("C:\\Users\\test\\repo.git" :> "repo")

\* C12: the name derived from a URL or path is its final segment without a
\* trailing ".git": the example inputs give "repo", "repo", "source_repo"
\* and "repo", and the derivation fails only for an input that has no
\* non-empty final segment.
C12_DerivesDirectoryName ==
    last.op = "get_name_from_path_or_url" =>
        /\ last.path \in DOMAIN DerivedNameExamples =>
              /\ last.result = "Some"
              /\ last.path2 = DerivedNameExamples[last.path]
        /\ last.result = "None" => FinalSegment(StripSeparators(last.path)) = ""

\* C13: a tag list matches a filter iff every group of the filter holds at
\* least one of the tags; the filter with no groups matches every list;
\* tags a, b match the group {a, c} and do not match the groups {a, c}, {d}.
C13_TagFilterAndOfOrs ==
    last.op = "matches" =>
        LET has == {last.names[i] : i \in DOMAIN last.names}
            groups == {last.filter[g] : g \in DOMAIN last.filter}
        IN  /\ (last.result = "true") <=> (\A g \in groups : g \cap has # {})
            /\ last.filter = <<>> => last.result = "true"
            /\ (last.names = <<"a", "b">> /\ last.filter = <<{"a", "c"}>>)
                    => last.result = "true"
            /\ (last.names = <<"a", "b">> /\ last.filter = <<{"a", "c"}, {"d"}>>)
                    => last.result = "false"

\* One group of the filter is satisfied and the other is not.
C13_Witness ==
    /\ last.op = "matches"
    /\ last.names = <<"a", "b">>
    /\ last.filter = <<{"a", "c"}, {"d"}>>
    /\ last.result = "false"

\* C14: the persisted registry is in canonical order after every call:
\* each repo's path is less than or equal to the path of the repo after it,
\* in the order of paths (component by component); an insertion re-sorts,
\* and removals, moves and tag changes leave the registry sorted.
C14_CanonicalOrder ==
    \A i \in 1..(Len(stored) - 1) :
        PathCmp(stored[i].path, stored[i + 1].path) <= 0

\* An add put the new repo in front of the repo that was tracked.
C14_Witness ==
    /\ last.op = "add" /\ last.saved
    /\ Len(last.pre) = 1
    /\ Len(stored) = 2
    /\ PathEq(stored[1].path, last.path)
    /\ stored[2] = last.pre[1]

\* The tag list has no tag twice and is sorted by lowercased tag.
TagsCanonical(tags) ==
    /\ \A i \in 1..Len(tags) : Occurrences(tags, tags[i]) = 1
    /\ \A i \in 1..(Len(tags) - 1) :
        StrCmp(ToLowercase(tags[i]), ToLowercase(tags[i + 1])) <= 0

\* The tag list without the tag t, the other tags in their order.
Without(tags, t) == SelectSeq(tags, LAMBDA x : x # t)

\* C15: every repo's tag list is duplicate-free and sorted
\* case-insensitively after any sequence of add_tag and remove_tag calls;
\* a successful remove_tag takes the tag out of the lists of the repos its
\* names resolve to, the other tags staying in their order, and changes no
\* other list.
C15_TagsSortedNoDuplicates ==
    /\ \A i \in 1..Len(stored) : TagsCanonical(stored[i].tags)
    /\ (last.op = "remove_tag" /\ last.result = "Ok") =>
        /\ Len(stored) = Len(last.pre)
        /\ \A i \in 1..Len(stored) :
            stored[i].tags =
                IF \E k \in 1..Len(last.names) :
                        find_by_name(last.pre, last.names[k]) = i
                THEN Without(last.pre[i].tags, last.tag)
                ELSE last.pre[i].tags

\* The middle tag of three was removed; in byte order the list would have
\* been B, a, c.
C15_Witness ==
    /\ last.op = "remove_tag" /\ last.result = "Ok" /\ last.tag = "B"
    /\ \E i \in 1..Len(stored) :
        /\ last.pre[i].tags = <<"a", "B", "c">>
        /\ stored[i].tags = <<"a", "c">>

\* C16: add of a path that is already tracked (after normalization) returns
\* Ok, makes no backend call, saves nothing and leaves the persisted
\* registry as it was; after a successful add the same add again is such a
\* no-op, whatever the backend would answer.
C16_AddTrackedIsNoOp ==
    /\ (last.op = "add"
            /\ index_by_path(last.pre, normalize_path(last.path)) # 0) =>
        /\ last.result = "Ok"
        /\ last.calls = <<>>
        /\ ~last.saved
        /\ stored = last.pre
    /\ (last.op = "add" /\ last.result = "Ok") =>
        \A ans \in ReadAnswers :
            LET again == EngineAdd(stored, last.path, ans)
            IN  /\ again.result = "Ok"
                /\ again.calls = <<>>
                /\ again.repos = stored

\* The path was given with a trailing separator and the tracked repo has a
\* tag and a remote to lose.
C16_Witness ==
    /\ last.op = "add" /\ last.path = "b.git/" /\ last.result = "Ok"
    /\ last.calls = <<>>
    /\ \E i \in 1..Len(stored) :
        /\ stored[i].path = "b.git"
        /\ stored[i].tags # <<>>
        /\ DOMAIN stored[i].remotes # {}

\* C17: add of an untracked path whose read_all_remotes succeeds returns Ok
\* and persists the registry it loaded plus exactly one repo: at the
\* normalized path, named by the final path segment, with no tags and with
\* the live remotes, each keyed by its own name.
C17_AddCreatesRepo ==
    (last.op = "add"
        /\ index_by_path(last.pre, normalize_path(last.path)) = 0
        /\ Len(last.calls) = 1 /\ last.calls[1].ok) =>
        LET ix == index_by_path(stored, normalize_path(last.path))
        IN  /\ last.result = "Ok"
            /\ last.saved
            /\ ix # 0
            /\ EntriesAt(stored, normalize_path(last.path)) = 1
            /\ stored[ix].name = FileName(last.path).val
            /\ stored[ix].tags = <<>>
            /\ DOMAIN stored[ix].remotes = DOMAIN last.live
            /\ \A n \in DOMAIN last.live :
                stored[ix].remotes[n] = [name |-> n, url |-> last.live[n]]
            /\ RemoveAt(stored, ix) = last.pre

\* C18: clone_and_add with no target and no name derivable from the URL
\* fails and leaves the registry unchanged; otherwise, when it returns Ok,
\* the registry has a repo at the target (the given target, else the name
\* derived from the URL) that carries every one of the tags.
C18_CloneAndAddRegisters ==
    last.op = "clone_and_add" =>
        LET derived == extract_repo_name_from_url(last.path)
            given == last.path2 # ""
            target == IF given THEN last.path2 ELSE derived.val
        IN  IF ~given /\ ~derived.some
            THEN last.result # "Ok" /\ stored = last.pre
            ELSE last.result = "Ok" =>
                    \E i \in 1..Len(stored) :
                        /\ PathEq(stored[i].path, normalize_path(target))
                        /\ \A k \in 1..Len(last.names) :
                            Occurrences(stored[i].tags, last.names[k]) = 1

\* The tags satisfy the filter: every group holds one of them.
Satisfies(filter, tags) ==
    \A g \in 1..Len(filter) :
        filter[g] \cap {tags[i] : i \in 1..Len(tags)} # {}

\* C19: list(filter) returns the tracked repos whose tags satisfy the
\* filter and no other, each as often as the registry holds it, in the
\* order of their lowercased names (whatever their order by path), and
\* leaves the persisted registry as it was.
C19_ListFiltersAndSorts ==
    last.op = "list" =>
        /\ \A i \in 1..Len(stored) :
            Occurrences(last.repos, stored[i]) =
                IF Satisfies(last.filter, stored[i].tags)
                THEN Occurrences(stored, stored[i]) ELSE 0
        /\ \A j \in 1..Len(last.repos) :
            \E i \in 1..Len(stored) : stored[i] = last.repos[j]
        /\ \A j \in 1..(Len(last.repos) - 1) :
            StrCmp(ToLowercase(last.repos[j].name),
                   ToLowercase(last.repos[j + 1].name)) <= 0
        /\ stored = last.pre
        /\ ~last.saved

\* Of three repos the filter keeps two, and lists them in the reverse of
\* their path order (which is also the byte order of their names).
C19_Witness ==
    /\ last.op = "list" /\ last.filter = <<{"a"}>>
    /\ Len(stored) = 3
    /\ Len(last.repos) = 2
    /\ last.repos[1] = stored[2]
    /\ last.repos[2] = stored[1]

C21_ErrorLeavesRegistry ==
    (last.op \in {"add", "add_tag", "remove_tag", "move"}
        /\ last.result # "Ok") =>
        /\ ~last.saved
        /\ stored = last.pre

\* add_tag had handled a repo (in memory) when it met the unresolved name.
C21_Witness ==
    /\ last.op = "add_tag" /\ last.result = "State"
    /\ last.names = <<"b.git", "zz">>
    /\ last.done = <<"b.git">>
    /\ \E i \in 1..Len(last.pre) :
        /\ last.pre[i].name = "b.git"
        /\ Occurrences(last.pre[i].tags, last.tag) = 0

\* The positions of the repos named n.
Named(repos, n) == {i \in 1..Len(repos) : repos[i].name = n}

\* C23: with several repos of one name, remove, add_tag and remove_tag
\* given that name once act on one repo, the first of that name in path
\* order: remove takes that entry out, the tag calls change the tag list of
\* that entry, and every other entry stays as it was.
C23_SharedNameFirstMatch ==
    (last.op \in {"remove", "add_tag", "remove_tag"}
        /\ Len(last.names) = 1
        /\ Cardinality(Named(last.pre, last.names[1])) > 1) =>
        LET same == Named(last.pre, last.names[1])
            first == CHOOSE i \in same : \A j \in same : i <= j
        IN  /\ last.result = "Ok"
            /\ \A j \in same :
                PathCmp(last.pre[first].path, last.pre[j].path) <= 0
            /\ CASE last.op = "remove" ->
                        stored = RemoveAt(last.pre, first)
                 [] last.op = "add_tag" ->
                        /\ stored = [last.pre EXCEPT ![first].tags =
                                        stored[first].tags]
                        /\ Occurrences(stored[first].tags, last.tag) = 1
                        /\ Without(stored[first].tags, last.tag)
                                = Without(last.pre[first].tags, last.tag)
                 [] last.op = "remove_tag" ->
                        stored = [last.pre EXCEPT ![first].tags =
                                    Without(last.pre[first].tags, last.tag)]

\* Two repos at different paths are named alike, and the tag went to the
\* first only.
C23_Witness ==
    /\ last.op = "add_tag" /\ last.names = <<"b.git">>
    /\ Len(last.pre) = 2
    /\ last.pre[1].name = "b.git" /\ last.pre[2].name = "b.git"
    /\ ~PathEq(last.pre[1].path, last.pre[2].path)
    /\ Occurrences(last.pre[1].tags, last.tag) = 0
    /\ Occurrences(last.pre[2].tags, last.tag) = 0
    /\ Occurrences(stored[1].tags, last.tag) = 1
    /\ stored[2] = last.pre[2]

\* The clone calls of a bulk call for the working copy of a path.
CloneCalls(path) ==
    {i \in 1..Len(last.calls) :
        /\ last.calls[i].fn = "clone"
        /\ PathEq(last.calls[i].path, path)}

\* C22: clone clones each repo from its remote "origin" if it declares one
\* and from another declared remote otherwise, at that remote's url; after
\* a clone that succeeded it calls add_remote once for each other declared
\* remote and not for the primary; after a clone that failed it calls
\* add_remote for none of the repo's remotes.
C22_ClonePrimaryAndOthers ==
    last.op = "clone" =>
        \A i \in 1..Len(last.repos) :
            LET repo == last.repos[i]
                declared == DOMAIN repo.remotes
                adds == AddRemoteCalls(repo.path)
            IN  \A c \in CloneCalls(repo.path) :
                    LET primary == last.calls[c].name
                    IN  /\ primary \in declared
                        /\ "origin" \in declared => primary = "origin"
                        /\ last.calls[c].url = repo.remotes[primary].url
                        /\ IF last.calls[c].ok
                           THEN \A n \in declared :
                                   Cardinality({a \in adds :
                                        last.calls[a].name = n})
                                     = IF n = primary THEN 0 ELSE 1
                           ELSE adds = {}

\* C25: sync_write_remotes and clone never save: after either, whatever its
\* outcome (Ok, failed repos counted, or aborted by a backend error), the
\* persisted registry is the one the call loaded, declared remotes included.
C25_BulkLeavesRegistry ==
    last.op \in {"sync_write", "clone"} =>
        /\ ~last.saved
        /\ stored = last.pre

\* sync_write_remotes added a remote to one working copy and could not read
\* another; the live remotes differ from the declared ones.
C25_Witness ==
    /\ last.op = "sync_write" /\ last.result = "Exit" /\ last.count = 1
    /\ last.liveAfter # last.live
    /\ stored = last.pre
    /\ \E i \in 1..Len(stored) :
        /\ last.live[FsKey(stored[i].path)].ok
        /\ into_remotes(last.live[FsKey(stored[i].path)].urls)
                # stored[i].remotes

\* The saves of the two invocations, in the order they happened.
Writes == SelectSeq(last.steps, LAMBDA e : e.step = "save")

\* Both invocations loaded before either of them saved or failed.
BothLoadedFirst ==
    /\ Len(last.steps) >= 2
    /\ last.steps[1].step = "load"
    /\ last.steps[2].step = "load"

\* C24: while two invocations run, the persisted registry is the registry
\* at their start until one saves, and from then on exactly the copy saved
\* last, never a mix of the two copies; when both loaded before either
\* saved, that copy is the last writer's operation applied to the registry
\* at the start, so the change of the earlier writer is lost.
C24_LastWriterWins ==
    last.op = "race" =>
        /\ stored = IF Writes = <<>> THEN last.pre
                    ELSE last.inv[Writes[Len(Writes)].who].repos
        /\ (BothLoadedFirst /\ Writes # <<>>) =>
                stored = RunOn(last.inv[Writes[Len(Writes)].who].op,
                               last.pre).repos

\* Both loaded, then both saved; the earlier writer had changed the
\* registry, and what is persisted differs from what the later writer
\* would have saved had it loaded after the earlier save.
C24_Witness ==
    /\ last.op = "race"
    /\ BothLoadedFirst
    /\ Len(Writes) = 2
    /\ LET earlier == last.inv[Writes[1].who]
           later == last.inv[Writes[2].who]
       IN  /\ earlier.repos # last.pre
           /\ stored # earlier.repos
           /\ stored # RunOn(later.op, earlier.repos).repos

====
